---- MODULE Spec2Model ----
(***************************************************************************)
(* A model of the two batch scripts of the repository:                     *)
(*   scripts/prepare_builds.py    field parsing and unit resolution        *)
(*   scripts/compute_features.py  weighted-median composites, percentiles  *)
(*                                                                         *)
(* Text is a sequence of one-character strings.  The characters that are   *)
(* not ASCII are written by name: "EN" (en dash), "EM" (em dash), "LDQ"    *)
(* and "RDQ" (the curly double quotes).                                    *)
(*                                                                         *)
(* A float is modelled by the real number it stands for, in fixed point:   *)
(* the record [hi, lo] is (hi * 10^6 + lo) * 10^-12 with 0 <= lo < 10^6.   *)
(* This is exact for every numeral of at most six fraction digits, for     *)
(* the product of a numeral of at most two fraction digits with one of     *)
(* the two ten-digit unit constants, and for the mean of two such values.  *)
(* Values stay below 2147 so that hi fits TLC's integers.  The floats that *)
(* are not finite, inf, -inf and nan, are three records of their own.      *)
(***************************************************************************)
EXTENDS Integers, Sequences, FiniteSets, TLC

VARIABLES
  raw,      \* prepare_builds: the raw field value handed to a parser
  fn,       \* prepare_builds: which parser ran ("none" before the call)
  out,      \* prepare_builds: the tuple (min, max, median, warnings) returned
  vals,     \* compute_features: the values handed to weighted_median
  wts,      \* compute_features: the weights handed to it, in hundredths
  wm,       \* compute_features: what weighted_median returned
  mpc,      \* compute_features: "call" before and "returned" after that call
  df,       \* compute_features: the table main() works on
  pc,       \* compute_features: how far main() has got with the table
  csvs,     \* prepare_builds: what the input directory holds
  table,    \* prepare_builds: the raw table read from the CSV files
  rows,     \* prepare_builds: the canonical rows built so far
  warnings_accum, \* prepare_builds: the parse warnings collected so far
  ppc,      \* prepare_builds: how far main() has got
  input,    \* compute_features: what the --input path holds
  force,    \* compute_features: whether --force was given
  disk,     \* the state of each output artifact in the output directory
  prior,    \* the output directory as the run found it
  rc        \* the exit code of the run, None while it runs

pvars == <<raw, fn, out>>
mvars == <<vals, wts, wm, mpc>>
fvars == <<df, pc>>
runvars == <<csvs, table, rows, warnings_accum, ppc, input, force, disk, prior, rc>>
vars == <<pvars, mvars, fvars, runvars>>

----------------------------------------------------------------------------
(* Optional values: Python's None and a present value.                      *)

None == <<>>
Some(x) == <<x>>
Get(o) == o[1]

----------------------------------------------------------------------------
(* Fixed-point reals.                                                       *)

Base == 10^6
Num(h, l) == [hi |-> h, lo |-> l]
FromInt(k) == Num(k * Base, 0)
\* a value given in hundredths
FromCents(n) == Num(n * 10^4, 0)
\* the floats that are not finite: float("inf"), float("-inf"), float("nan");
\* a lo outside 0 .. Base-1 marks them
Inf == Num(0, Base)
NegInf == Num(0, Base + 1)
NaN == Num(0, Base + 2)
IsFinite(a) == a.lo < Base
\* a < b: false when either side is NaN
Less(a, b) ==
  IF a = NaN \/ b = NaN THEN FALSE
  ELSE IF a = NegInf THEN b # NegInf
  ELSE IF b = Inf THEN a # Inf
  ELSE IF a = Inf \/ b = NegInf THEN FALSE
  ELSE a.hi < b.hi \/ (a.hi = b.hi /\ a.lo < b.lo)
\* not (b < a), the test min() makes to keep its first argument
Leq(a, b) == ~Less(b, a)
Add(a, b) ==
  LET l == a.lo + b.lo
  IN IF a = NaN \/ b = NaN \/ {a, b} = {Inf, NegInf} THEN NaN
     ELSE IF Inf \in {a, b} THEN Inf
     ELSE IF NegInf \in {a, b} THEN NegInf
     ELSE Num(a.hi + b.hi + (l \div Base), l % Base)
\* a / 2.0
Half(a) ==
  IF ~IsFinite(a) THEN a
  ELSE Num(a.hi \div 2, (a.lo + (a.hi % 2) * Base) \div 2)
Neg(a) ==
  IF a = Inf THEN NegInf ELSE IF a = NegInf THEN Inf ELSE IF a = NaN THEN NaN
  ELSE IF a.lo = 0 THEN Num(-a.hi, 0) ELSE Num(-a.hi - 1, Base - a.lo)
\* a * k for a unit constant k = (k.hi * 10^6 + k.lo) * 10^-10 and a value a
\* of at most two fraction digits
Mul(a, k) ==
  LET n == a.hi \div 10^4
      nh == n \div 1000
      nl == n % 1000
      t1 == nh * k.lo
      t2 == nl * k.lo
      l == (t1 % 1000) * 1000 + (t2 % Base)
  IN IF ~IsFinite(a) THEN a
     ELSE Num(n * k.hi + (t1 \div 1000) + (t2 \div Base) + (l \div Base), l % Base)
Min2(a, b) == IF Leq(a, b) THEN a ELSE b
Max2(a, b) == IF Less(a, b) THEN b ELSE a

\* 0.3937007874 (inches per centimetre) and 2.2046226218 (pounds per kilogram)
CM_TO_IN == [hi |-> 3937, lo |-> 7874]
KG_TO_LB == [hi |-> 22046, lo |-> 226218]

----------------------------------------------------------------------------
(* Characters and text.                                                     *)

Digits == <<"0", "1", "2", "3", "4", "5", "6", "7", "8", "9">>
IsDigit(c) == \E i \in 1..10 : Digits[i] = c
DigitVal(c) == (CHOOSE i \in 1..10 : Digits[i] = c) - 1
IsSpace(c) == c = " "
IsDash(c) == c \in {"-", "EN", "EM"}

RECURSIVE ToInt(_)
\* int() of a run of digits
ToInt(ds) ==
  IF ds = <<>> THEN 0
  ELSE ToInt(SubSeq(ds, 1, Len(ds) - 1)) * 10 + DigitVal(ds[Len(ds)])

\* the index after the longest run of digits (of blanks) that starts at i
DigitsEnd(s, i) ==
  CHOOSE j \in i..(Len(s) + 1) :
    /\ \A k \in i..(j - 1) : IsDigit(s[k])
    /\ (j = Len(s) + 1 \/ ~IsDigit(s[j]))
SkipWs(s, i) ==
  CHOOSE j \in i..(Len(s) + 1) :
    /\ \A k \in i..(j - 1) : IsSpace(s[k])
    /\ (j = Len(s) + 1 \/ ~IsSpace(s[j]))

\* str.strip()
Strip(s) ==
  IF \A i \in 1..Len(s) : IsSpace(s[i]) THEN <<>>
  ELSE LET a == CHOOSE i \in 1..Len(s) :
                  ~IsSpace(s[i]) /\ \A k \in 1..(i - 1) : IsSpace(s[k])
           b == CHOOSE i \in 1..Len(s) :
                  ~IsSpace(s[i]) /\ \A k \in (i + 1)..Len(s) : IsSpace(s[k])
       IN SubSeq(s, a, b)

RECURSIVE Replace(_, _, _)
\* str.replace(pat, rep): left to right, occurrences that do not overlap
Replace(s, pat, rep) ==
  IF Len(s) < Len(pat) THEN s
  ELSE IF SubSeq(s, 1, Len(pat)) = pat
       THEN rep \o Replace(SubSeq(s, Len(pat) + 1, Len(s)), pat, rep)
       ELSE <<s[1]>> \o Replace(Tail(s), pat, rep)

\* str.replace(c, ""), for a single character
Without(s, c) == SelectSeq(s, LAMBDA x : x # c)

RECURSIVE SplitDash(_)
\* re.split(r"[-EN EM]", s): the pieces between the dashes, empty ones kept
SplitDash(s) ==
  IF \A i \in 1..Len(s) : ~IsDash(s[i]) THEN <<s>>
  ELSE LET i == CHOOSE i \in 1..Len(s) :
                  IsDash(s[i]) /\ \A k \in 1..(i - 1) : ~IsDash(s[k])
       IN <<SubSeq(s, 1, i - 1)>> \o SplitDash(SubSeq(s, i + 1, Len(s)))

----------------------------------------------------------------------------
(* Numerals and the two regular expressions of prepare_builds.py.           *)
(* An intermediate value that is read more than once is bound as the        *)
(* parameter of a local operator, LET K(x) == ... IN K(value).              *)

\* the number written <ip>.<fr>, for at most six fraction digits
Decimal(ip, fr) == Num(ToInt(ip) * Base + ToInt(fr) * 10^(6 - Len(fr)), 0)
Signed(neg, v) == IF neg THEN Neg(v) ELSE v
IsSign(c) == c \in {"+", "-"}

\* NUMERIC_RE = [-+]?\d+(?:\.\d+)? can match at position i
NumericStarts(s, i) ==
  /\ i <= Len(s)
  /\ \/ IsDigit(s[i])
     \/ IsSign(s[i]) /\ i + 1 <= Len(s) /\ IsDigit(s[i + 1])
\* the match of NUMERIC_RE at i: float(m.group(0)) and the index after it
NumericAt(s, i) ==
  LET d0 == IF IsSign(s[i]) THEN i + 1 ELSE i
      Whole(d1) ==
        LET frac == d1 + 1 <= Len(s) /\ s[d1] = "." /\ IsDigit(s[d1 + 1])
            Match(f1) ==
              [val |-> Signed(s[i] = "-",
                              Decimal(SubSeq(s, d0, d1 - 1), SubSeq(s, d1 + 1, f1 - 1))),
               end |-> f1]
        IN Match(IF frac THEN DigitsEnd(s, d1 + 1) ELSE d1)
  IN Whole(DigitsEnd(s, d0))
\* float(NUMERIC_RE.search(s).group(0)), None when nothing matches
NUMERIC_RE_search(s) ==
  IF \E i \in 1..Len(s) : NumericStarts(s, i)
  THEN Some(NumericAt(s, CHOOSE i \in 1..Len(s) :
                           NumericStarts(s, i)
                           /\ \A k \in 1..(i - 1) : ~NumericStarts(s, k)).val)
  ELSE None

RECURSIVE NumericFrom(_, _)
NumericFrom(s, i) ==
  LET Cons(m) == <<m.val>> \o NumericFrom(s, m.end)
  IN IF i > Len(s) THEN <<>>
     ELSE IF NumericStarts(s, i) THEN Cons(NumericAt(s, i))
     ELSE NumericFrom(s, i + 1)
\* [float(x) for x in NUMERIC_RE.findall(s)]
NUMERIC_RE_findall(s) == NumericFrom(s, 1)

\* FT_IN_RE = (?P<ft>\d+)\s*'\s*(?P<in>\d+) matched at i, the start of a run
\* of digits: the groups as integers, or None
FtInAt(s, i) ==
  LET Inches(m, e) ==
        IF e > m THEN Some([ft |-> ToInt(SubSeq(s, i, DigitsEnd(s, i) - 1)),
                            in |-> ToInt(SubSeq(s, m, e - 1))])
        ELSE None
      AfterQuote(m) == Inches(m, DigitsEnd(s, m))
      Quote(k) ==
        IF k <= Len(s) /\ s[k] = "'" THEN AfterQuote(SkipWs(s, k + 1)) ELSE None
  IN Quote(SkipWs(s, DigitsEnd(s, i)))
FtInStarts(s, i) == IsDigit(s[i]) /\ FtInAt(s, i) # None
\* FT_IN_RE.search(s): the leftmost match, or None
FT_IN_RE_search(s) ==
  IF \E i \in 1..Len(s) : FtInStarts(s, i)
  THEN FtInAt(s, CHOOSE i \in 1..Len(s) :
                   FtInStarts(s, i) /\ \A k \in 1..(i - 1) : ~FtInStarts(s, k))
  ELSE None

\* the words float() reads as floats that are not finite, in lower case
InfWords == {<<"i", "n", "f">>, <<"i", "n", "f", "i", "n", "i", "t", "y">>}
NanWords == {<<"n", "a", "n">>}
\* float(t) for a text of digits, signs, points and lower-case letters:
\* [+-]? (d+ [. d*] | . d+ | inf | infinity | nan); None stands for the
\* ValueError
Float(t0) ==
  LET Body(neg, b) ==
        LET dots == {i \in 1..Len(b) : b[i] = "."}
            Point(p) == Some(Signed(neg, Decimal(SubSeq(b, 1, p - 1),
                                                 SubSeq(b, p + 1, Len(b)))))
        IN IF b \in InfWords THEN Some(Signed(neg, Inf))
           ELSE IF b \in NanWords THEN Some(NaN)
           ELSE IF /\ Cardinality(dots) <= 1
                   /\ \A i \in 1..Len(b) : IsDigit(b[i]) \/ b[i] = "."
                   /\ \E i \in 1..Len(b) : IsDigit(b[i])
           THEN Point(IF dots = {} THEN Len(b) + 1 ELSE CHOOSE i \in dots : TRUE)
           ELSE None
      Stripped(t) ==
        Body(t # <<>> /\ t[1] = "-", IF t # <<>> /\ IsSign(t[1]) THEN Tail(t) ELSE t)
  IN Stripped(Strip(t0))

parse_number_token(token) ==
  LET Direct(t, f) == IF f # None THEN f ELSE NUMERIC_RE_search(t)
      Cleaned(t) == Direct(t, Float(t))
      Token(t1) ==
        IF t1 = <<>> THEN None
        ELSE Cleaned(Strip(Without(Without(Without(
                       Without(t1, "%"), "\""), "RDQ"), "LDQ")))
  IN Token(Strip(token))

ftin_to_inches(s) ==
  LET Match(m) == IF m = None THEN None ELSE Some(Get(m).ft * 12 + Get(m).in)
  IN IF s = <<>> THEN None ELSE Match(FT_IN_RE_search(s))

----------------------------------------------------------------------------
(* The Range Parser.                                                        *)

Warn(k, a) == [kind |-> k, arg |-> a]
Tuple(mn, mx, med, w) == [mn |-> mn, mx |-> mx, med |-> med, warnings |-> w]
Single(v, w) == Tuple(Some(v), Some(v), Some(v), w)
Nothing(w) == Tuple(None, None, None, w)
\* Range with the division by two forgotten
RangeNotHalved(mn, mx, w) == Tuple(Some(mn), Some(mx), Some(Add(mn, mx)), w)
\* (mn, mx, float((mn + mx) / 2.0), warnings)
Range(mn, mx, w) == Tuple(Some(mn), Some(mx), Some(Half(Add(mn, mx))), w)

\* s_clean of parse_range_or_single
Normalize(s) ==
  Replace(Replace(Replace(Replace(s, <<"EN">>, <<"-">>), <<"EM">>, <<"-">>),
                  <<" ", "t", "o", " ">>, <<" ", "-", " ">>),
          <<"t", "o">>, <<" ", "-", " ">>)
\* parts of parse_range_or_single
Parts(s_clean) ==
  LET Kept(ps) == SelectSeq([i \in 1..Len(ps) |-> Strip(ps[i])], LAMBDA p : p # <<>>)
  IN Kept(SplitDash(s_clean))

RECURSIVE FtInVals(_)
\* the loop over parts[:2] of the ft/in branch: vals and the warnings it adds
FtInVals(ps) ==
  LET Step(inches, rest) ==
        IF inches = None
        THEN [vals |-> rest.vals,
              warnings |-> <<Warn("unparseable ft/in part", ps[1])>> \o rest.warnings]
        ELSE [vals |-> <<FromInt(Get(inches))>> \o rest.vals,
              warnings |-> rest.warnings]
  IN IF ps = <<>> THEN [vals |-> <<>>, warnings |-> <<>>]
     ELSE Step(ftin_to_inches(ps[1]), FtInVals(Tail(ps)))

\* the ft/in branch (lines 127-147): what it returns, if it returns, and the
\* warnings it has appended by then
FtInBranch(parts) ==
  LET Two(r) ==
        IF Len(r.vals) = 1
        THEN [returned |-> TRUE, value |-> Single(r.vals[1], r.warnings)]
        ELSE IF Len(r.vals) = 2
        THEN [returned |-> TRUE,
              value |-> Range(Min2(r.vals[1], r.vals[2]), Max2(r.vals[1], r.vals[2]),
                              r.warnings)]
        ELSE [returned |-> FALSE, value |-> Nothing(r.warnings)]
      One(inches) ==
        IF inches # None
        THEN [returned |-> TRUE, value |-> Single(FromInt(Get(inches)), <<>>)]
        ELSE [returned |-> FALSE, value |-> Nothing(<<>>)]
  IN IF Len(parts) >= 2 THEN Two(FtInVals(SubSeq(parts, 1, 2)))
     ELSE IF parts = <<>>
     THEN [returned |-> FALSE, value |-> Nothing(<<Warn("ft/in parse error", <<>>)>>)]
     ELSE One(ftin_to_inches(parts[1]))

RECURSIVE PartNums(_)
\* the loop over parts of the numeric branch (lines 149-163)
PartNums(ps) ==
  LET Step(n, rest) ==
        IF n = None
        THEN [nums |-> rest.nums,
              warnings |-> <<Warn("unparseable numeric part", ps[1])>> \o rest.warnings]
        ELSE [nums |-> <<Get(n)>> \o rest.nums, warnings |-> rest.warnings]
      Again(n0) == IF n0 = None THEN NUMERIC_RE_search(ps[1]) ELSE n0
  IN IF ps = <<>> THEN [nums |-> <<>>, warnings |-> <<>>]
     ELSE Step(Again(parse_number_token(ps[1])), PartNums(Tail(ps)))

\* FromNums with the centimetre test written >= 100
FromNumsFrom100(nums, treat_as_cm_if_large, warnings) ==
  LET Two(mn, mx) ==
        IF treat_as_cm_if_large /\ (Leq(FromInt(100), mn) \/ Leq(FromInt(100), mx))
        THEN Range(Mul(mn, CM_TO_IN), Mul(mx, CM_TO_IN), warnings)
        ELSE Range(mn, mx, warnings)
  IN IF Len(nums) = 1
     THEN IF treat_as_cm_if_large /\ Leq(FromInt(100), nums[1])
          THEN Single(Mul(nums[1], CM_TO_IN), warnings)
          ELSE Single(nums[1], warnings)
     ELSE Two(Min2(nums[1], nums[2]), Max2(nums[1], nums[2]))
\* lines 172-191: one number, or the first two of several
FromNums(nums, treat_as_cm_if_large, warnings) ==
  LET Two(mn, mx) ==
        IF treat_as_cm_if_large /\ (Less(FromInt(100), mn) \/ Less(FromInt(100), mx))
        THEN Range(Mul(mn, CM_TO_IN), Mul(mx, CM_TO_IN), warnings)
        ELSE Range(mn, mx, warnings)
  IN IF Len(nums) = 1
     THEN IF treat_as_cm_if_large /\ Less(FromInt(100), nums[1])
          THEN Single(Mul(nums[1], CM_TO_IN), warnings)
          ELSE Single(nums[1], warnings)
     ELSE Two(Min2(nums[1], nums[2]), Max2(nums[1], nums[2]))

\* the numeric branch (lines 148-191), entered with the warnings w0
NumericBranch(parts, s_clean, treat_as_cm_if_large, w0) ==
  LET Found(nums, warnings) ==
        IF Len(nums) = 0 THEN Nothing(warnings)
        ELSE FromNums(nums, treat_as_cm_if_large, warnings)
      Scanned(r) ==
        Found(IF Len(r.nums) = 0 THEN NUMERIC_RE_findall(s_clean) ELSE r.nums,
              w0 \o r.warnings)
  IN Scanned(PartNums(parts))

parse_range_or_single(r, treat_as_cm_if_large) ==
  LET Branches(s_clean, parts, ftm, ft) ==
        IF ftm # None /\ ft.returned THEN ft.value
        ELSE NumericBranch(parts, s_clean, treat_as_cm_if_large,
                           IF ftm # None THEN ft.value.warnings ELSE <<>>)
      Split(s_clean, parts) ==
        Branches(s_clean, parts, FT_IN_RE_search(s_clean), FtInBranch(parts))
      Clean(s_clean) == Split(s_clean, Parts(s_clean))
      Text(s) == IF s = <<>> THEN Nothing(<<>>) ELSE Clean(Normalize(s))
  IN Text(Strip(r))

----------------------------------------------------------------------------
(* The Unit Resolver.                                                       *)

\* Suspicious with the window's ends flagged too
SuspiciousInclusive(v) ==
  v # None /\ (Leq(Get(v), FromInt(20)) \/ Leq(FromInt(120), Get(v)))
\* lines 214 and 216: outside 20 to 120 inches
Suspicious(v) ==
  v # None /\ (Less(Get(v), FromInt(20)) \/ Less(FromInt(120), Get(v)))

parse_height(r) ==
  LET Checked(s, p) ==
        Tuple(p.mn, p.mx, p.med,
              p.warnings
              \o (IF Suspicious(p.mn) THEN <<Warn("height min suspicious", s)>> ELSE <<>>)
              \o (IF Suspicious(p.mx) THEN <<Warn("height max suspicious", s)>> ELSE <<>>))
      Text(s) ==
        IF s = <<>> THEN Nothing(<<>>) ELSE Checked(s, parse_range_or_single(s, TRUE))
  IN Text(Strip(r))

\* the kilogram branch (lines 236-243)
AsKilograms(s, p) ==
  LET Pounds(mn_lbs, mx_lbs) ==
        Tuple(Some(mn_lbs), Some(mx_lbs), Some(Half(Add(mn_lbs, mx_lbs))),
              p.warnings \o <<Warn("interpreted weight as kg converted to lbs", s)>>)
      Min(mn_lbs) ==
        Pounds(mn_lbs, IF p.mx # None THEN Mul(Get(p.mx), KG_TO_LB) ELSE mn_lbs)
  IN Min(Mul(Get(p.mn), KG_TO_LB))

\* parse_weight with 90 itself read as kilograms
parse_weight_upto90(r) ==
  LET Checked(s, p) ==
        IF p.mn # None /\ Leq(Get(p.mn), FromInt(90)) THEN AsKilograms(s, p)
        ELSE IF p.mn # None /\ Less(FromInt(400), Get(p.mn))
        THEN Tuple(p.mn, p.mx, p.med,
                   p.warnings \o <<Warn("weight suspicious value", s)>>)
        ELSE p
      Text(s) ==
        IF s = <<>> THEN Nothing(<<>>) ELSE Checked(s, parse_range_or_single(s, FALSE))
  IN Text(Strip(r))

parse_weight(r) ==
  LET Checked(s, p) ==
        IF p.mn # None /\ Less(Get(p.mn), FromInt(90)) THEN AsKilograms(s, p)
        ELSE IF p.mn # None /\ Less(FromInt(400), Get(p.mn))
        THEN Tuple(p.mn, p.mx, p.med,
                   p.warnings \o <<Warn("weight suspicious value", s)>>)
        ELSE p
      Text(s) ==
        IF s = <<>> THEN Nothing(<<>>) ELSE Checked(s, parse_range_or_single(s, FALSE))
  IN Text(Strip(r))

parse_stat(r) == parse_range_or_single(r, FALSE)

----------------------------------------------------------------------------
(* compute_features.py: the arithmetic of the weights.  The weights are     *)
(* IEEE-754 doubles; a non-negative double below 8 that is 0 or at least    *)
(* 2^-8 is a whole number of units of 2^-60, kept here in three limbs of    *)
(* 21 bits <<h, m, l>> = h*2^42 + m*2^21 + l.  Sums are exact in the limbs  *)
(* and every operation of the code rounds its exact result to 53            *)
(* significant bits, ties to even, as the hardware does.                    *)

Limb == 2^21
BZero == <<0, 0, 0>>
\* limbs brought back into 0 .. Limb-1, the carries moved up
Carried(h, m, l) ==
  LET H(m2) == <<h + m2 \div Limb, m2 % Limb, l % Limb>>
  IN H(m + l \div Limb)
BAdd(x, y) == Carried(x[1] + y[1], x[2] + y[2], x[3] + y[3])
\* x - y for x >= y
BSub(x, y) == Carried(x[1] - y[1], x[2] - y[2], x[3] - y[3])
\* k * x for a whole number k of at most 9 bits
BTimes(x, k) == Carried(x[1] * k, x[2] * k, x[3] * k)
BLess(x, y) ==
  \/ x[1] < y[1]
  \/ x[1] = y[1] /\ (x[2] < y[2] \/ (x[2] = y[2] /\ x[3] < y[3]))
\* the number of bits of a limb, and of a number
Bits(k) == CHOOSE n \in 0..23 : k < 2^n /\ (n = 0 \/ k >= 2^(n - 1))
BitLen(x) ==
  IF x[1] > 0 THEN 42 + Bits(x[1])
  ELSE IF x[2] > 0 THEN 21 + Bits(x[2]) ELSE Bits(x[3])
\* round to nearest, ties to even, at 53 significant bits; inexact tells
\* that the exact result lies above x
RoundSig(x, inexact) ==
  LET Cut(k, drop, half, odd) ==
        IF drop > half \/ (drop = half /\ (inexact \/ odd))
        THEN BAdd(<<x[1], x[2], x[3] - drop>>, <<0, 0, 2 * half>>)
        ELSE <<x[1], x[2], x[3] - drop>>
      Low(k) == Cut(k, x[3] % 2^k, 2^(k - 1), (x[3] \div 2^k) % 2 = 1)
      Sized(n) == IF n <= 53 THEN x ELSE Low(n - 53)
  IN Sized(BitLen(x))

\* a + b of two doubles
FAdd(x, y) == RoundSig(BAdd(x, y), FALSE)

\* long division, 9 binary digits at a time
Radix == 2^9
\* a limb k times 2^e, rounded down
Shifted(k, e) ==
  IF k = 0 \/ e < 0 - 30 THEN 0
  ELSE IF e >= 0 THEN k * 2^e ELSE k \div 2^(0 - e)
\* x / 2^s rounded down, for an x with at most 30 bits more than s
Top(x, s) == Shifted(x[1], 42 - s) + Shifted(x[2], 21 - s) + Shifted(x[3], 0 - s)
RECURSIVE Settle(_, _, _)
\* a digit that was guessed too small, and the remainder r it leaves, put
\* right: the remainder ends below y
Settle(r, digit, y) ==
  IF BLess(r, y) THEN [digit |-> digit, r |-> r]
  ELSE Settle(BSub(r, y), digit + 1, y)
RECURSIVE Quotient(_, _, _, _)
\* d.n more digits of the quotient d.q with remainder d.r < y; a digit is
\* guessed from the leading bits of the remainder and of y (y / 2^s rounded
\* up is ye), never too large
Quotient(d, y, s, ye) ==
  LET Digit(c) ==
        [q |-> BAdd(BTimes(d.q, Radix), <<0, 0, c.digit>>), r |-> c.r, n |-> d.n - 1]
      Guess(r, est) == Digit(Settle(BSub(r, BTimes(y, est)), est, y))
      Lead(r) == Guess(r, Top(r, s) \div ye)
  IN IF d.n = 0 THEN d ELSE Quotient(Lead(BTimes(d.r, Radix)), y, s, ye)
\* x / y of two doubles with 2^-7 <= x/y < 4: the whole part and 7 * 9
\* binary digits after the point, rounded, the 3 digits beyond 2^-60, then
\* all 0, left out
FDiv(x, y) ==
  LET Out(q) ==
        <<q[1] \div 8, (q[2] + (q[1] % 8) * Limb) \div 8,
          (q[3] + (q[2] % 8) * Limb) \div 8>>
      Rounded(d) == Out(RoundSig(d.q, d.r # BZero))
      From(w, s) ==
        Rounded(Quotient([q |-> <<0, 0, w.digit>>, r |-> w.r, n |-> 7], y, s,
                         Top(y, s) + (IF s > 0 THEN 1 ELSE 0)))
      Lead(n) == From(Settle(x, 0, y), IF n > 15 THEN n - 15 ELSE 0)
  IN Lead(BitLen(y))
\* the double of a literal of n hundredths, such as 0.22
Double(n) == FDiv(<<0, 0, n>>, <<0, 0, 100>>)
\* the double 0.5
OneHalf == <<2^17, 0, 0>>

\* a weight of n hundredths as the code holds it: its sign and the double of
\* its magnitude
Weight(n) ==
  IF n > 0 THEN [sign |-> 1, mag |-> Double(n)]
  ELSE IF n < 0 THEN [sign |-> -1, mag |-> Double(-n)]
  ELSE [sign |-> 0, mag |-> BZero]

----------------------------------------------------------------------------
(* compute_features.py: the Composite Scorer.  A value is None for NaN and  *)
(* Some(k) for the number k; the values of the model are even whole         *)
(* numbers, which doubles hold exactly.                                     *)

\* an array: the items of the sequence f, each worked out once
Array(f) == SubSeq(f, 1, Len(f))
Indices(s) == Array([i \in 1..Len(s) |-> i])
\* s[ix] of numpy, ix a sequence of indices
At(s, ix) == Array([k \in 1..Len(ix) |-> s[ix[k]]])
\* np.argsort(v): the indices of v in ascending order of the values, equal
\* values in their order in v (an insertion sort for so few items)
Argsort(v) ==
  LET Pos(i) ==
        Cardinality({j \in 1..Len(v) : v[j] < v[i] \/ (v[j] = v[i] /\ j < i)}) + 1
  IN Array([k \in 1..Len(v) |-> CHOOSE i \in 1..Len(v) : Pos(i) = k])
\* median with the lower of the two middle values taken for an even count
median_low(v) ==
  LET Middle(s, n) == s[(n + 1) \div 2]
  IN Middle(At(v, Argsort(v)), Len(v))
\* np.median(v) of a non-empty v
median(v) ==
  LET Middle(s, n) ==
        IF n % 2 = 1 THEN s[(n + 1) \div 2]
        ELSE (s[n \div 2] + s[n \div 2 + 1]) \div 2
  IN Middle(At(v, Argsort(v)), Len(v))
RECURSIVE SumTo(_, _)
\* w[0] + ... + w[k-1], added from the left
SumTo(w, k) == IF k = 1 THEN w[1] ELSE FAdd(SumTo(w, k - 1), w[k])
\* np.cumsum(w)
Cumsum(w) == Array([k \in 1..Len(w) |-> SumTo(w, k)])
\* np.searchsorted(cumsum, 0.5, side="left") on the ascending cumsum
Searchsorted(cumsum) ==
  Cardinality({k \in 1..Len(cumsum) : BLess(cumsum[k], OneHalf)})

weighted_median(values, weights) ==
  LET Pick(v_sorted, idx) ==
        Some(v_sorted[(IF idx < Len(v_sorted) - 1 THEN idx ELSE Len(v_sorted) - 1) + 1])
      Sorted(v_sorted, w_sorted) == Pick(v_sorted, Searchsorted(Cumsum(w_sorted)))
      Order(v, w, order) == Sorted(At(v, order), At(w, order))
      Normal(v, w, w_sum) ==
        IF w_sum = BZero THEN Some(median(v))
        ELSE Order(v, Array([k \in 1..Len(w) |-> FDiv(w[k], w_sum)]), Argsort(v))
      Kept(v, w) == Normal(v, w, SumTo(w, Len(w)))
      Positive(v, w, positive) ==
        IF positive = <<>> THEN Some(median(v))
        ELSE Kept(At(v, positive), Array([k \in 1..Len(positive) |-> w[positive[k]].mag]))
      Masked(v, w) ==
        Positive(v, w, SelectSeq(Indices(v), LAMBDA i : w[i].sign > 0))
      Mask(mask) ==
        IF mask = <<>> THEN None
        ELSE Masked(Array([k \in 1..Len(mask) |-> Get(values[mask[k]])]), At(weights, mask))
  IN IF Len(values) = 0 THEN None
     ELSE Mask(SelectSeq(Indices(values), LAMBDA i : values[i] # None))

\* COMPOSITE_SPECS in its order, the weights in hundredths
COMPOSITE_CENTS ==
  << [name |-> "finishing",
      bases |-> <<"close_shot", "driving_layup", "driving_dunk", "standing_dunk",
                  "post_control">>,
      weights |-> <<22, 18, 25, 15, 20>>],
     [name |-> "shooting",
      bases |-> <<"midrange_shot", "threepoint_shot", "free_throw">>,
      weights |-> <<40, 45, 15>>],
     [name |-> "playmaking",
      bases |-> <<"pass_accuracy", "ball_handle", "speed_with_ball">>,
      weights |-> <<40, 35, 25>>],
     [name |-> "defense",
      bases |-> <<"interior_defense", "perimeter_defense", "steal", "block",
                  "defensive_rebound">>,
      weights |-> <<25, 25, 15, 15, 20>>],
     [name |-> "athleticism",
      bases |-> <<"speed", "agility", "strength", "vertical">>,
      weights |-> <<25, 25, 20, 30>>] >>
Weights(cents) == Array([k \in 1..Len(cents) |-> Weight(cents[k])])
COMPOSITE_SPECS ==
  Array([c \in 1..Len(COMPOSITE_CENTS) |->
           [name |-> COMPOSITE_CENTS[c].name, bases |-> COMPOSITE_CENTS[c].bases,
            weights |-> Weights(COMPOSITE_CENTS[c].weights)]])

----------------------------------------------------------------------------
(* compute_features.py: the table.  A row holds its position, its stat      *)
(* columns (<base>_med, None for NaN or for a column the input lacks), and  *)
(* per composite, in the order of COMPOSITE_SPECS, its score and its two    *)
(* percentiles, the percentiles in hundredths.                              *)

Comps == 1..Len(COMPOSITE_SPECS)
NoColumn == [c \in Comps |-> None]

\* row_composite: the composite c of a row
row_composite(row, c) ==
  weighted_median(
    Array([k \in 1..Len(COMPOSITE_SPECS[c].bases) |->
             row.stats[COMPOSITE_SPECS[c].bases[k]]]),
    COMPOSITE_SPECS[c].weights)
compute_composites(t) ==
  [i \in 1..Len(t) |->
     [t[i] EXCEPT !.comp = [c \in Comps |-> row_composite(t[i], c)]]]

\* DataFrame.max(axis=1) over the composites of a row, NaN skipped
RowMax(comp) ==
  LET present == {Get(comp[c]) : c \in {k \in Comps : comp[k] # None}}
  IN IF present = {} THEN None
     ELSE Some(CHOOSE m \in present : \A x \in present : x <= m)
\* str.capitalize of a composite's name
Capitalize(name) ==
  CASE name = "finishing" -> "Finishing"
    [] name = "shooting" -> "Shooting"
    [] name = "playmaking" -> "Playmaking"
    [] name = "defense" -> "Defense"
    [] name = "athleticism" -> "Athleticism"
\* pick_role with a tie resolved to the composite declared last
pick_role_last(comp, score) ==
  LET hits == {c \in Comps : comp[c] # None /\ comp[c] = score}
  IN IF score = None \/ hits = {} THEN ""
     ELSE Capitalize(COMPOSITE_SPECS[CHOOSE c \in hits : \A d \in hits : d <= c].name)
\* pick_role: the first composite, in the order of COMPOSITE_SPECS, whose
\* score equals primary_role_score
pick_role(comp, score) ==
  LET hits == {c \in Comps : comp[c] # None /\ comp[c] = score}
  IN IF score = None \/ hits = {} THEN ""
     ELSE Capitalize(COMPOSITE_SPECS[CHOOSE c \in hits : \A d \in hits : c <= d].name)
primary_role(t) ==
  [i \in 1..Len(t) |->
     [t[i] EXCEPT !.primary_role_score = RowMax(t[i].comp),
                  !.primary_role = pick_role(t[i].comp, RowMax(t[i].comp))]]

\* Before with scores less than 20 apart taken as equal
BeforeByTwenty(a, b) == a + 20 <= b
\* the order rank() sorts the scores by
Before(a, b) == a < b
\* Count with the NaN scores counted too
CountAll(scores) == Len(scores)
\* the number of scores rank(pct=True) divides by: those that are not NaN
Count(scores) == Cardinality({j \in 1..Len(scores) : scores[j] # None})
\* round-half-even of num / den to a whole number
Round(num, den) ==
  LET Near(q, r) ==
        IF 2 * r > den \/ (2 * r = den /\ q % 2 = 1) THEN q + 1 ELSE q
  IN Near(num \div den, num % den)
\* TiedPositions of method="min": every tied score takes the first position
TiedPositionsMin(less, eq) == (less + 1) * eq
\* method="average": the tied scores share the mean of the positions
\* less+1 .. less+eq they take in sorted order; the mean is total / eq
TiedPositions(less, eq) == ((less + 1 + less + eq) * eq) \div 2
\* rank / n * 100, then .round(2), in hundredths, for the rank total / eq
Percent(total, eq, n) == Round(100 * 100 * total, eq * n)
\* Series.rank(method="average", pct=True) * 100, then .round(2): the
\* percentile of every score in hundredths, None for NaN
rank_pct(scores) ==
  LET Below(i) ==
        Cardinality({j \in 1..Len(scores) :
                       scores[j] # None /\ Before(Get(scores[j]), Get(scores[i]))})
      Same(i) ==
        Cardinality({j \in 1..Len(scores) :
                       scores[j] # None /\ ~Before(Get(scores[j]), Get(scores[i]))
                                        /\ ~Before(Get(scores[i]), Get(scores[j]))})
  IN [i \in 1..Len(scores) |->
        IF scores[i] = None THEN None
        ELSE Some(Percent(TiedPositions(Below(i), Same(i)), Same(i), Count(scores)))]

\* the column of composite c
Column(t, c) == Array([i \in 1..Len(t) |-> t[i].comp[c]])
\* groupby("position")[comp].rank(...): each row ranked among the rows of
\* its position
group_rank_pct(t, c) ==
  LET Group(i) == SelectSeq(Indices(t), LAMBDA j : t[j].position = t[i].position)
      Place(i, g) == CHOOSE k \in 1..Len(g) : g[k] = i
      In(i, g) == rank_pct(At(Column(t, c), g))[Place(i, g)]
  IN [i \in 1..Len(t) |-> In(i, Group(i))]
compute_percentiles(t, skip) ==
  IF skip THEN t
  ELSE [i \in 1..Len(t) |->
          [t[i] EXCEPT !.pct_pos = [c \in Comps |-> group_rank_pct(t, c)[i]],
                       !.pct_global = [c \in Comps |-> rank_pct(Column(t, c))[i]]]]

----------------------------------------------------------------------------
(* The raw field values the parsers are run on: one field, or a range of    *)
(* two fields with a separator, followed by up to MaxParts - 2 further      *)
(* hyphen-separated fields.                                                 *)

MaxParts == 3

RECURSIVE FmtInt(_)
\* the decimal digits of a natural number
FmtInt(k) ==
  IF k < 10 THEN <<Digits[k + 1]>>
  ELSE FmtInt(k \div 10) \o <<Digits[(k % 10) + 1]>>
\* the numeral of a value given in hundredths: 8500 is "85", 8850 is "88.5"
Fmt(n) ==
  LET fr == n % 100
  IN FmtInt(n \div 100) \o
     (IF fr = 0 THEN <<>>
      ELSE IF fr % 10 = 0 THEN <<".">> \o FmtInt(fr \div 10)
      ELSE <<".", Digits[(fr \div 10) + 1], Digits[(fr % 10) + 1]>>)

\* values in hundredths, all multiples of a tenth
Cents == {0, 1950, 2000, 8500, 9000, 9500, 10000, 10100, 22000, 30480, 30490,
          40000, 40100}
Numerals == {Fmt(n) : n \in Cents}
\* feet and inches: 6'11, 7'1", 1'7 (19 in), 10 ' 1 (121 in)
FtInPairs == {<<6, 11>>, <<7, 1>>, <<1, 7>>, <<10, 1>>}
FmtFtIn(p) ==
  IF p = <<7, 1>> THEN FmtInt(p[1]) \o <<"'">> \o FmtInt(p[2]) \o <<"\"">>
  ELSE IF p = <<10, 1>> THEN FmtInt(p[1]) \o <<" ", "'", " ">> \o FmtInt(p[2])
  ELSE FmtInt(p[1]) \o <<"'">> \o FmtInt(p[2])
FtInAtoms == {FmtFtIn(p) : p \in FtInPairs}
OtherAtoms == {<<"x">>, <<"2", "2", "0", "c", "m">>, <<" ", "8", "5", "%">>}
Atoms == Numerals \cup FtInAtoms \cup OtherAtoms
Seps == {<<"-">>, <<"EN">>, <<"EM">>, <<" ", "t", "o", " ">>, <<"t", "o">>}
Tails == {<<"6", "'", "1", "1">>, <<"9", "2">>, <<"x">>}

RECURSIVE TailsUpTo(_)
TailsUpTo(k) ==
  IF k = 0 THEN {<<>>}
  ELSE TailsUpTo(k - 1) \cup
       {x \o <<"-">> \o t : x \in TailsUpTo(k - 1), t \in Tails}
Inputs ==
  {<<>>, <<" ">>} \cup Atoms \cup
  {a \o s \o b \o x : a \in Atoms, s \in Seps, b \in Atoms,
                      x \in TailsUpTo(MaxParts - 2)}

----------------------------------------------------------------------------
(* Field parsing as main() of prepare_builds.py calls it on one field.      *)

Init ==
  /\ raw \in Inputs
  /\ fn = "none"
  /\ out = Nothing(<<>>)
  /\ vals = <<>> /\ wts = <<>> /\ wm = None /\ mpc = "idle"
  /\ df = <<>> /\ pc = "idle"
  /\ csvs = "idle" /\ table = [identity |-> FALSE, rows |-> <<>>]
  /\ rows = <<>> /\ warnings_accum = <<>> /\ ppc = "idle"
  /\ input = "idle" /\ force = FALSE
  /\ disk = <<>> /\ prior = <<>> /\ rc = None

\* h_min, h_max, h_med, w_h = parse_height(h_raw)
ParseHeight ==
  /\ fn = "none"
  /\ fn' = "height"
  /\ out' = parse_height(raw)
  /\ UNCHANGED <<raw, mvars, fvars, runvars>>

\* w_min, w_max, w_med, w_w = parse_weight(wt_raw)
ParseWeight ==
  /\ fn = "none"
  /\ fn' = "weight"
  /\ out' = parse_weight(raw)
  /\ UNCHANGED <<raw, mvars, fvars, runvars>>

\* s_min, s_max, s_med, s_w = parse_stat(raw_val)
ParseStat ==
  /\ fn = "none"
  /\ fn' = "stat"
  /\ out' = parse_stat(raw)
  /\ UNCHANGED <<raw, mvars, fvars, runvars>>

Next == ParseHeight \/ ParseWeight \/ ParseStat

Spec == Init /\ [][Next]_vars

----------------------------------------------------------------------------
(* weighted_median called on one list of values and one list of weights.    *)

MaxValue == 3
\* NaN and the values 10, 20, ...
Values == {None} \cup {Some(10 * k) : k \in 1..MaxValue}
\* the weight lists of COMPOSITE_SPECS, the list 0.5, 0.3, 0.2, and lists
\* with weights that are not positive, in hundredths
WeightLists ==
  {COMPOSITE_CENTS[c].weights : c \in 1..Len(COMPOSITE_CENTS)} \cup
  {<<50, 30, 20>>, <<0, 0, 0>>, <<0 - 20, 0, 50>>, <<>>}

ParseIdle == raw = <<>> /\ fn = "idle" /\ out = Nothing(<<>>)
MedianIdle == vals = <<>> /\ wts = <<>> /\ wm = None /\ mpc = "idle"
FeaturesIdle == df = <<>> /\ pc = "idle"
NoTable == [identity |-> FALSE, rows |-> <<>>]
PrepareIdle ==
  csvs = "idle" /\ table = NoTable /\ rows = <<>> /\ warnings_accum = <<>> /\ ppc = "idle"
MainIdle == input = "idle" /\ force = FALSE
DiskIdle == disk = <<>> /\ prior = <<>> /\ rc = None

InitMedian ==
  /\ wts \in WeightLists
  /\ vals \in [1..Len(wts) -> Values]
  /\ wm = None
  /\ mpc = "call"
  /\ ParseIdle /\ FeaturesIdle /\ PrepareIdle /\ MainIdle /\ DiskIdle

\* weighted_median(vals, weights), the weights being floats
WeightedMedian ==
  /\ mpc = "call"
  /\ wm' = weighted_median(vals, Weights(wts))
  /\ mpc' = "returned"
  /\ UNCHANGED <<vals, wts, pvars, fvars, runvars>>

NextMedian == WeightedMedian

SpecMedian == InitMedian /\ [][NextMedian]_vars

----------------------------------------------------------------------------
(* main() of compute_features.py on one input table.                        *)

MaxRows == 3
AllBases == UNION {{COMPOSITE_CENTS[c].bases[k] : k \in 1..Len(COMPOSITE_CENTS[c].bases)} :
                     c \in 1..Len(COMPOSITE_CENTS)}
\* the stat columns of a row: nothing at all; 20 everywhere; a finisher with
\* no post_control and no other stat; a shooter and passer with no other
\* stat
Blank == [b \in AllBases |-> None]
Flat == [b \in AllBases |-> Some(20)]
Slasher ==
  [b \in AllBases |->
     CASE b = "close_shot" -> Some(10)
       [] b = "driving_layup" -> Some(20)
       [] b \in {"driving_dunk", "standing_dunk"} -> Some(30)
       [] OTHER -> None]
Shooter ==
  [b \in AllBases |->
     CASE b = "midrange_shot" -> Some(30)
       [] b = "threepoint_shot" -> Some(20)
       [] b = "free_throw" -> Some(10)
       [] b \in {"pass_accuracy", "ball_handle", "speed_with_ball"} -> Some(30)
       [] OTHER -> None]
Profiles == {Blank, Flat, Slasher, Shooter}
Positions == {"PG", "C"}
InputRows ==
  {[position |-> p, stats |-> s, comp |-> NoColumn, primary_role |-> "",
    primary_role_score |-> None, pct_pos |-> NoColumn, pct_global |-> NoColumn] :
     p \in Positions, s \in Profiles}
Tables == UNION {[1..n -> InputRows] : n \in 1..MaxRows}

InitFeatures ==
  /\ df \in Tables
  /\ pc = "loaded"
  /\ ParseIdle /\ MedianIdle /\ PrepareIdle /\ MainIdle /\ DiskIdle

\* df = compute_composites(df)
ComputeComposites ==
  /\ pc = "loaded"
  /\ df' = compute_composites(df)
  /\ pc' = "composites"
  /\ UNCHANGED <<pvars, mvars, runvars>>

\* df = primary_role(df)
PrimaryRole ==
  /\ pc = "composites"
  /\ df' = primary_role(df)
  /\ pc' = "roles"
  /\ UNCHANGED <<pvars, mvars, runvars>>

\* df = compute_percentiles(df, skip=False)
ComputePercentiles ==
  /\ pc = "roles"
  /\ df' = compute_percentiles(df, FALSE)
  /\ pc' = "percentiles"
  /\ UNCHANGED <<pvars, mvars, runvars>>

\* df = compute_percentiles(df, skip=True), with --skip-percentiles
SkipPercentiles ==
  /\ pc = "roles"
  /\ df' = compute_percentiles(df, TRUE)
  /\ pc' = "skipped"
  /\ UNCHANGED <<pvars, mvars, runvars>>

NextFeatures ==
  ComputeComposites \/ PrimaryRole \/ ComputePercentiles \/ SkipPercentiles

SpecFeatures == InitFeatures /\ [][NextFeatures]_vars

----------------------------------------------------------------------------
(* main() of prepare_builds.py on the CSV files of one input directory.     *)
(* The raw table has the columns height, weight and one stat column,        *)
(* close_shot, and the identity columns build_name and position when        *)
(* table.identity says so.  An artifact on disk is "absent", "old" (left    *)
(* by an earlier run), "new" (written by this run) or "partial" (a write    *)
(* of this run that failed after the file was opened).                      *)

\* round(float(x), 2): to hundredths, ties to even; inf and nan stay
round_2(x) ==
  LET q == x.hi \div 10^4
      r == x.hi % 10^4
      Up == r > 5000 \/ (r = 5000 /\ (x.lo > 0 \/ q % 2 = 1))
  IN IF ~IsFinite(x) THEN x ELSE Num((IF Up THEN q + 1 ELSE q) * 10^4, 0)
\* None if v is None else round(float(v), 2)
Canon(v) == IF v = None THEN None ELSE Some(round_2(Get(v)))
\* one entry of warnings_accum, or nothing when the parser gave no warning
Accum(idx, name, column, raw_value, w) ==
  IF w = <<>> THEN <<>>
  ELSE <<[row_index |-> idx, build_name |-> name, column |-> column,
          raw_value |-> raw_value, warnings |-> w]>>
\* the body of the loop over the raw rows (lines 329-371): the canonical
\* row and the entries the row adds to warnings_accum
process_row(idx, r, identity) ==
  LET Built(name, position, h, w, s) ==
        [row_out |->
           [build_name |-> name, position |-> position,
            height_min_in |-> Canon(h.mn), height_max_in |-> Canon(h.mx),
            height_med_in |-> Canon(h.med),
            weight_min_lb |-> Canon(w.mn), weight_max_lb |-> Canon(w.mx),
            weight_med_lb |-> Canon(w.med),
            close_shot_med |-> Canon(s.med)],
         warnings |->
           Accum(idx, name, "close_shot", r.close_shot, s.warnings)
           \o Accum(idx, name, "height", r.height, h.warnings)
           \o Accum(idx, name, "weight", r.weight, w.warnings)]
  IN Built(IF identity THEN Strip(r.build_name) ELSE <<>>,
           IF identity THEN Strip(r.position) ELSE <<>>,
           parse_height(r.height), parse_weight(r.weight), parse_stat(r.close_shot))

MaxRecords == 2
\* the rows of the raw table: a clean one, one of separators and words, one
\* of the words float() accepts, an empty one, and two with stray parts.
\* read_csv turns a cell that is exactly "nan" or "n/a" into a missing
\* value, which fillna makes the empty field: no cell is one of those
RawRows ==
  { [build_name |-> <<"A">>, position |-> <<"P", "G">>,
     height |-> <<"6", "'", "1", "1">>, weight |-> <<"2", "2", "0">>,
     close_shot |-> <<"8", "5", "-", "9", "2">>],
    [build_name |-> <<"B">>, position |-> <<"C">>,
     height |-> <<"x">>, weight |-> <<"-">>, close_shot |-> <<"t", "o">>],
    [build_name |-> <<"C">>, position |-> <<"C">>,
     height |-> <<"i", "n", "f">>, weight |-> <<" ", "n", "a", "n">>,
     close_shot |-> <<"i", "n", "f", "i", "n", "i", "t", "y">>],
    [build_name |-> <<" ", "D", " ">>, position |-> <<>>,
     height |-> <<>>, weight |-> <<>>, close_shot |-> <<>>],
    [build_name |-> <<"E">>, position |-> <<"P", "G">>,
     height |-> <<"2", "0", "0">>, weight |-> <<"8", "0">>,
     close_shot |-> <<"n", "/", "a", "-", "8", "5">>],
    [build_name |-> <<"F">>, position |-> <<"P", "G">>,
     height |-> <<"EM">>, weight |-> <<"l", "b", "s">>,
     close_shot |-> <<"-", "i", "n", "f">>] }
RawTables ==
  {[identity |-> b, rows |-> t] :
     b \in BOOLEAN, t \in UNION {[1..n -> RawRows] : n \in 1..MaxRecords}}
CanonicalArtifacts == {"builds_canonical.csv", "builds_canonical.pkl", "parsing_report.json"}

InitPrepare ==
  /\ csvs \in {"none", "unreadable", "readable"}
  /\ table \in (IF csvs = "readable" THEN RawTables ELSE {NoTable})
  /\ rows = <<>> /\ warnings_accum = <<>>
  /\ ppc = "start"
  /\ disk \in [CanonicalArtifacts -> {"absent", "old"}]
  /\ prior = disk
  /\ rc = None
  /\ ParseIdle /\ MedianIdle /\ FeaturesIdle /\ MainIdle

\* lines 274-277: files = discover_input_files(...) is empty
NoCsvFiles ==
  /\ ppc = "start" /\ csvs = "none"
  /\ rc' = Some(2) /\ ppc' = "exit"
  /\ UNCHANGED <<csvs, table, rows, warnings_accum, disk, prior, input, force,
                 pvars, mvars, fvars>>
\* lines 282-292: every read_csv raised, df_list is empty
NoDataframes ==
  /\ ppc = "start" /\ csvs = "unreadable"
  /\ rc' = Some(2) /\ ppc' = "exit"
  /\ UNCHANGED <<csvs, table, rows, warnings_accum, disk, prior, input, force,
                 pvars, mvars, fvars>>
\* lines 282-328: the files are read and concatenated, the columns renamed
ReadCsvs ==
  /\ ppc = "start" /\ csvs = "readable"
  /\ rows' = <<>> /\ warnings_accum' = <<>>
  /\ ppc' = "rows"
  /\ UNCHANGED <<csvs, table, disk, prior, rc, input, force, pvars, mvars, fvars>>
\* lines 329-371: one pass of the loop over raw.iterrows()
ProcessRow ==
  /\ ppc = "rows" /\ Len(rows) < Len(table.rows)
  /\ LET Added(p) ==
           /\ rows' = Append(rows, p.row_out)
           /\ warnings_accum' = warnings_accum \o p.warnings
     IN Added(process_row(Len(rows), table.rows[Len(rows) + 1], table.identity))
  /\ UNCHANGED <<csvs, table, ppc, disk, prior, rc, input, force, pvars, mvars, fvars>>
\* lines 373-390: canon_df is built and canon_df.to_csv(csv_path) writes it
WriteCanonicalCsv ==
  /\ ppc = "rows" /\ Len(rows) = Len(table.rows)
  /\ disk' = [disk EXCEPT !["builds_canonical.csv"] = "new"]
  /\ ppc' = "csv"
  /\ UNCHANGED <<csvs, table, rows, warnings_accum, prior, rc, input, force,
                 pvars, mvars, fvars>>
\* line 391: canon_df.to_pickle(pkl_path)
WriteCanonicalPkl ==
  /\ ppc = "csv"
  /\ disk' = [disk EXCEPT !["builds_canonical.pkl"] = "new"]
  /\ ppc' = "pkl"
  /\ UNCHANGED <<csvs, table, rows, warnings_accum, prior, rc, input, force,
                 pvars, mvars, fvars>>
\* lines 396-412: the parsing report is written and main returns 0
WriteParsingReport ==
  /\ ppc = "pkl"
  /\ disk' = [disk EXCEPT !["parsing_report.json"] = "new"]
  /\ rc' = Some(0) /\ ppc' = "exit"
  /\ UNCHANGED <<csvs, table, rows, warnings_accum, prior, input, force,
                 pvars, mvars, fvars>>
\* the artifact the next write of lines 390-405 goes to
NextCanonical ==
  CASE ppc = "rows" -> "builds_canonical.csv"
    [] ppc = "csv" -> "builds_canonical.pkl"
    [] ppc = "pkl" -> "parsing_report.json"
\* lines 390-405: a write raises OSError, before or after the file was
\* opened for writing; nothing catches it and the interpreter exits with 1
CanonicalWriteFails ==
  /\ \/ ppc = "rows" /\ Len(rows) = Len(table.rows)
     \/ ppc \in {"csv", "pkl"}
  /\ \E left \in {disk[NextCanonical], "partial"} :
       disk' = [disk EXCEPT ![NextCanonical] = left]
  /\ rc' = Some(1) /\ ppc' = "exit"
  /\ UNCHANGED <<csvs, table, rows, warnings_accum, prior, input, force,
                 pvars, mvars, fvars>>

NextPrepare ==
  \/ NoCsvFiles \/ NoDataframes \/ ReadCsvs \/ ProcessRow
  \/ WriteCanonicalCsv \/ WriteCanonicalPkl \/ WriteParsingReport
  \/ CanonicalWriteFails

SpecPrepare == InitPrepare /\ [][NextPrepare]_vars

----------------------------------------------------------------------------
(* main() of compute_features.py from its arguments to its exit code.  The  *)
(* --input path holds nothing ("missing"), a file that cannot be loaded     *)
(* ("unreadable"), a table without build_name or position ("no_identity")   *)
(* or a canonical table ("table"), which df holds from the start.           *)

FeatureArtifacts ==
  {"builds_features.csv", "builds_features.pkl", "feature_definitions.json",
   "feature_report.json"}
\* lines 384-386: df[c] = df[c].round(2) for every composite; a score is a
\* whole number here and is rounded in hundredths
round_composites(t) ==
  [i \in 1..Len(t) |->
     [t[i] EXCEPT !.comp =
        [c \in Comps |->
           IF t[i].comp[c] = None THEN None
           ELSE Some(Round(100 * 100 * Get(t[i].comp[c]), 100) \div 100)]]]
\* existing of save_outputs: the artifacts found in the output directory
Existing == {a \in DOMAIN disk : disk[a] # "absent"}

InitMain ==
  /\ input \in {"missing", "unreadable", "no_identity", "table"}
  /\ force \in BOOLEAN
  /\ df \in (IF input = "table" THEN {t \in Tables : Len(t) = 1} ELSE {<<>>})
  /\ pc = "start"
  /\ disk \in [FeatureArtifacts -> {"absent", "old"}]
  /\ prior = disk
  /\ rc = None
  /\ ParseIdle /\ MedianIdle /\ PrepareIdle

\* lines 348-350: the input path does not exist
InputMissing ==
  /\ pc = "start" /\ input = "missing"
  /\ rc' = Some(2) /\ pc' = "exit"
  /\ UNCHANGED <<df, input, force, disk, prior, csvs, table, rows, warnings_accum,
                 ppc, pvars, mvars>>
\* lines 352-356: load_input raises
LoadFails ==
  /\ pc = "start" /\ input = "unreadable"
  /\ rc' = Some(3) /\ pc' = "exit"
  /\ UNCHANGED <<df, input, force, disk, prior, csvs, table, rows, warnings_accum,
                 ppc, pvars, mvars>>
\* lines 358-361: build_name or position is not a column of the input
MissingColumns ==
  /\ pc = "start" /\ input = "no_identity"
  /\ rc' = Some(4) /\ pc' = "exit"
  /\ UNCHANGED <<df, input, force, disk, prior, csvs, table, rows, warnings_accum,
                 ppc, pvars, mvars>>
\* lines 352-364: the table is loaded and has its identity columns
LoadInput ==
  /\ pc = "start" /\ input = "table"
  /\ pc' = "loaded"
  /\ UNCHANGED <<df, pvars, mvars, runvars>>
\* lines 375-386: the composites are rounded to two decimals
RoundComposites ==
  /\ pc \in {"percentiles", "skipped"}
  /\ df' = round_composites(df)
  /\ pc' = "rounded"
  /\ UNCHANGED <<pvars, mvars, runvars>>
\* lines 292-297 and 391-392: outputs exist and --force was not given
SaveRefused ==
  /\ pc = "rounded" /\ Existing # {} /\ ~force
  /\ rc' = Some(5) /\ pc' = "exit"
  /\ UNCHANGED <<df, input, force, disk, prior, csvs, table, rows, warnings_accum,
                 ppc, pvars, mvars>>
\* lines 292-301: the guard passes and df.to_csv(csv_path) writes the table
WriteFeaturesCsv ==
  /\ pc = "rounded" /\ (Existing = {} \/ force)
  /\ disk' = [disk EXCEPT !["builds_features.csv"] = "new"]
  /\ pc' = "csv"
  /\ UNCHANGED <<df, input, force, prior, rc, csvs, table, rows, warnings_accum,
                 ppc, pvars, mvars>>
\* lines 302-303: df.to_pickle(pkl_path)
WriteFeaturesPkl ==
  /\ pc = "csv"
  /\ disk' = [disk EXCEPT !["builds_features.pkl"] = "new"]
  /\ pc' = "pkl"
  /\ UNCHANGED <<df, input, force, prior, rc, csvs, table, rows, warnings_accum,
                 ppc, pvars, mvars>>
\* lines 305-308: feature_definitions.json
WriteDefinitions ==
  /\ pc = "pkl"
  /\ disk' = [disk EXCEPT !["feature_definitions.json"] = "new"]
  /\ pc' = "defs"
  /\ UNCHANGED <<df, input, force, prior, rc, csvs, table, rows, warnings_accum,
                 ppc, pvars, mvars>>
\* lines 310-315 and 397-399: feature_report.json, then main returns 0
WriteReport ==
  /\ pc = "defs"
  /\ disk' = [disk EXCEPT !["feature_report.json"] = "new"]
  /\ rc' = Some(0) /\ pc' = "exit"
  /\ UNCHANGED <<df, input, force, prior, csvs, table, rows, warnings_accum,
                 ppc, pvars, mvars>>
\* the artifact the next write of save_outputs goes to
NextFeature ==
  CASE pc = "rounded" -> "builds_features.csv"
    [] pc = "csv" -> "builds_features.pkl"
    [] pc = "pkl" -> "feature_definitions.json"
    [] pc = "defs" -> "feature_report.json"
\* lines 299-313 and 393-395: a write raises, before or after the file was
\* opened for writing; main logs it and returns 6
SaveFails ==
  /\ \/ pc = "rounded" /\ (Existing = {} \/ force)
     \/ pc \in {"csv", "pkl", "defs"}
  /\ \E left \in {disk[NextFeature], "partial"} :
       disk' = [disk EXCEPT ![NextFeature] = left]
  /\ rc' = Some(6) /\ pc' = "exit"
  /\ UNCHANGED <<df, input, force, prior, csvs, table, rows, warnings_accum,
                 ppc, pvars, mvars>>

NextMain ==
  \/ InputMissing \/ LoadFails \/ MissingColumns \/ LoadInput
  \/ ComputeComposites \/ PrimaryRole \/ ComputePercentiles \/ SkipPercentiles
  \/ RoundComposites
  \/ SaveRefused \/ WriteFeaturesCsv \/ WriteFeaturesPkl \/ WriteDefinitions
  \/ WriteReport \/ SaveFails

SpecMain == InitMain /\ [][NextMain]_vars

----------------------------------------------------------------------------
(* Properties of field parsing.                                             *)

HasWarning(w, k) == \E i \in 1..Len(w) : w[i].kind = k
\* the separators of a range the Range Parser is specified for
RangeSeps == {<<"-">>, <<"EN">>, <<"EM">>, <<" ", "t", "o", " ">>}
\* a text "A sep B" of two numerals with A <= B, with A and B in hundredths
RangeCases ==
  {[text |-> Fmt(a) \o s \o Fmt(b), a |-> a, b |-> b] :
     a \in Cents, b \in Cents, s \in RangeSeps}
SingleCases == {[text |-> Fmt(a), a |-> a] : a \in Cents}
\* the mean of two values given in hundredths
MeanOfCents(a, b) == Num((a + b) * 5000, 0)

\* C1: with unit conversion disabled, the range "A-B" (hyphen, en dash, em
\* dash) or "A to B" of two non-negative numbers A <= B parses to
\* min = A, max = B, median = (A+B)/2, with no warnings.
C1_RangeOfTwoNumbers ==
  fn = "stat" =>
    \A c \in RangeCases :
      (c.text = raw /\ c.a <= c.b) =>
        out = Tuple(Some(FromCents(c.a)), Some(FromCents(c.b)),
                    Some(MeanOfCents(c.a, c.b)), <<>>)
C1_Witness ==
  /\ fn = "stat"
  /\ raw = <<"8", "5", " ", "t", "o", " ", "9", "5">>
  /\ out.mn = Some(FromInt(85)) /\ out.mx = Some(FromInt(95))
  /\ out.med = Some(FromInt(90))

\* every match of the feet-inches pattern in s, as inches
FtInInches(s) ==
  {Get(FtInAt(s, i)).ft * 12 + Get(FtInAt(s, i)).in :
     i \in {k \in 1..Len(s) : FtInStarts(s, k) /\ (k = 1 \/ ~IsDigit(s[k - 1]))}}
\* the endpoints a value with a feet-inches pattern stands for: F*12+I for
\* every match of the pattern, and the number of a part that is a bare
\* number of inches
FtInEndpoints(s) ==
  LET parts == Parts(Normalize(Strip(s)))
      Bare(i) == FtInInches(parts[i]) = {} /\ parse_number_token(parts[i]) # None
  IN {FromInt(x) : x \in FtInInches(s)} \cup
     {Get(parse_number_token(parts[i])) : i \in {k \in 1..Len(parts) : Bare(k)}}
\* C2: whenever a feet-inches pattern F'I occurs anywhere in a height value,
\* every feet-inches endpoint is converted to exactly F*12+I inches and the
\* centimetre conversion is never applied: the interval returned is made of
\* the value's endpoints as they stand (min the smaller, max the larger,
\* median their mean; one endpoint gives min = max = median).
C2_FeetInchesAnywhere ==
  (fn = "height" /\ FtInInches(raw) # {}) =>
    \E x \in FtInEndpoints(raw), y \in FtInEndpoints(raw) :
      /\ Leq(x, y)
      /\ out.mn = Some(x)
      /\ out.mx = Some(y)
      /\ out.med = Some(Half(Add(x, y)))
\* the same for values of at most two parts
C2_TwoParts ==
  Len(Parts(Normalize(Strip(raw)))) <= 2 => C2_FeetInchesAnywhere

KgWarning == "interpreted weight as kg converted to lbs"
LbWarning == "weight suspicious value"
\* C3: parse_weight multiplies min, max and median by 2.2046226218 and
\* records a warning when the parsed minimum is below 90; returns the
\* interval unchanged with no unit warning when the minimum is 90 or between
\* 90 and 400; returns it unchanged with a suspicious-value warning when the
\* minimum is above 400.
C3_WeightHeuristic ==
  LET p == parse_range_or_single(Strip(raw), FALSE)
      Times(v) == Some(Mul(Get(v), KG_TO_LB))
  IN (fn = "weight" /\ Strip(raw) # <<>> /\ p.mn # None) =>
       IF Get(p.mn).hi < 90 * Base
       THEN /\ out.mn = Times(p.mn) /\ out.mx = Times(p.mx) /\ out.med = Times(p.med)
            /\ HasWarning(out.warnings, KgWarning)
       ELSE IF Get(p.mn).hi < 400 * Base \/ Get(p.mn) = Num(400 * Base, 0)
       THEN /\ out = p
            /\ ~HasWarning(out.warnings, KgWarning)
            /\ ~HasWarning(out.warnings, LbWarning)
       ELSE /\ out.mn = p.mn /\ out.mx = p.mx /\ out.med = p.med
            /\ HasWarning(out.warnings, LbWarning)
            /\ ~HasWarning(out.warnings, KgWarning)
C3_Witness ==
  /\ fn = "weight"
  /\ raw = <<"8", "5", "-", "9", "5">>
  /\ out.mn = Some(Num(187392922, 853000))
  /\ out.med = Some(Mul(FromInt(90), KG_TO_LB))
  /\ HasWarning(out.warnings, KgWarning)

\* a value as the specification reads it: centimetres above 100, inches otherwise
PerValue(v) == IF Less(FromInt(100), v) THEN Mul(v, CM_TO_IN) ELSE v
\* C4 as stated: in height parsing each bare number greater than 100 is
\* multiplied by 0.3937007874 and each bare number not greater than 100 is
\* kept unchanged, for a single value and for each endpoint of a range.
C4_EachValueByItself ==
  fn = "height" =>
    /\ \A c \in SingleCases :
         c.text = raw =>
           /\ out.mn = Some(PerValue(FromCents(c.a)))
           /\ out.mx = out.mn /\ out.med = out.mn
    /\ \A c \in RangeCases :
         (c.text = raw /\ c.a <= c.b) =>
           /\ out.mn = Some(PerValue(FromCents(c.a)))
           /\ out.mx = Some(PerValue(FromCents(c.b)))
\* C4 as amended: a single bare number is multiplied by 0.3937007874 when it
\* is greater than 100 and kept otherwise; in a range of two bare numbers
\* both endpoints are multiplied when the larger one is greater than 100
\* (the smaller one too, even when it is not greater than 100) and both are
\* kept when neither is; the median is the mean of the two results.
C4_RangeConvertedAsAWhole ==
  fn = "height" =>
    /\ \A c \in SingleCases :
         c.text = raw =>
           /\ out.mn = Some(PerValue(FromCents(c.a)))
           /\ out.mx = out.mn /\ out.med = out.mn
    /\ \A c \in RangeCases :
         (c.text = raw /\ c.a <= c.b) =>
           IF c.b > 10000
           THEN /\ out.mn = Some(Mul(FromCents(c.a), CM_TO_IN))
                /\ out.mx = Some(Mul(FromCents(c.b), CM_TO_IN))
                /\ Add(Get(out.med), Get(out.med)) = Add(Get(out.mn), Get(out.mx))
           ELSE /\ out.mn = Some(FromCents(c.a))
                /\ out.mx = Some(FromCents(c.b))
                /\ out.med = Some(MeanOfCents(c.a, c.b))
C4_Witness ==
  /\ fn = "height"
  /\ raw = <<"9", "5", "-", "1", "0", "1">>
  /\ out.mn = Some(Num(37401574, 803000))
  /\ out.mx = Some(Num(39763779, 527400))

\* outside the window of 20 to 120 inches
OutsideWindow(v) ==
  \/ v.hi < 20 * Base
  \/ v.hi > 120 * Base
  \/ (v.hi = 120 * Base /\ v.lo > 0)
\* C5: parse_height never clamps or discards: it returns exactly the
\* interval the Range Parser produced (with the centimetre flag), and it
\* records a suspicious-height warning if and only if the minimum or the
\* maximum is below 20 or above 120.
C5_HeightKeptAndFlagged ==
  LET p == parse_range_or_single(Strip(raw), TRUE)
  IN (fn = "height" /\ Strip(raw) # <<>>) =>
       /\ out.mn = p.mn /\ out.mx = p.mx /\ out.med = p.med
       /\ HasWarning(out.warnings, "height min suspicious")
            <=> (p.mn # None /\ OutsideWindow(Get(p.mn)))
       /\ HasWarning(out.warnings, "height max suspicious")
            <=> (p.mx # None /\ OutsideWindow(Get(p.mx)))
C5_Witness ==
  /\ fn = "height"
  /\ raw = <<"1", "0", "0", "-", "3", "0", "4", ".", "9">>
  /\ Less(FromInt(120), Get(out.mx))
  /\ ~OutsideWindow(Get(out.mn))
  /\ HasWarning(out.warnings, "height max suspicious")
  /\ ~HasWarning(out.warnings, "height min suspicious")

----------------------------------------------------------------------------
(* Properties of weighted_median.                                           *)

\* the entries that contribute: a present value with a positive weight
Contributing == {i \in 1..Len(vals) : vals[i] # None /\ wts[i] > 0}
RECURSIVE Mass(_)
\* the total weight, in hundredths, of a set of entries
Mass(S) ==
  IF S = {} THEN 0
  ELSE LET i == CHOOSE k \in S : TRUE IN wts[i] + Mass(S \ {i})
\* the contributing entries whose value is at most v
UpTo(v) == {i \in Contributing : Get(vals[i]) <= v}
\* the values that hold at least half of the contributing weight at or
\* below them
HalfReached == {Get(vals[i]) : i \in {k \in Contributing :
                                        2 * Mass(UpTo(Get(vals[k]))) >= Mass(Contributing)}}
\* some value holds exactly half of the contributing weight at or below it
ExactHalf ==
  \E i \in Contributing : 2 * Mass(UpTo(Get(vals[i]))) = Mass(Contributing)

\* C6: whenever at least one present value has a positive weight,
\* weighted_median returns the smallest present positive-weight value v
\* such that the weight of the present positive-weight values <= v is at
\* least half of the weight of all of them; the result is one of the input
\* values.
C6_SmallestValueReachingHalf ==
  (mpc = "returned" /\ Contributing # {}) =>
    /\ wm # None
    /\ Get(wm) \in HalfReached
    /\ \A v \in HalfReached : Get(wm) <= v
\* the same where no value sits exactly on the half: there the rounding of
\* the normalised weights cannot move the choice
C6_AwayFromHalf == ExactHalf \/ C6_SmallestValueReachingHalf
\* the example of the specification: 10, a missing 20 and 30 with weights 0.5, 0.3
\* and 0.2 give 10
C6_Example ==
  (mpc = "returned" /\ wts = <<50, 30, 20>> /\ vals = <<Some(10), None, Some(30)>>)
    => wm = Some(10)

MaxScale == 3
RECURSIVE Multiple(_, _)
\* k * x of a double and a small whole number, before rounding
Multiple(x, k) == IF k = 0 THEN BZero ELSE BAdd(x, Multiple(x, k - 1))
\* c * x of two doubles, c a small whole number
FMul(x, c) == RoundSig(Multiple(x, c), FALSE)
\* every weight multiplied by the whole number c
Scaled(w, c) == Array([k \in 1..Len(w) |-> [w[k] EXCEPT !.mag = FMul(w[k].mag, c)]])
\* C7: multiplying all weights by the same positive constant gives the same
\* result, for every list of values with any subset missing.
C7_ScaleOfWeights ==
  mpc = "returned" =>
    \A c \in 2..MaxScale : weighted_median(vals, Scaled(Weights(wts), c)) = wm
\* the same for the constant 2, which no rounding touches
C7_Doubled ==
  mpc = "returned" => weighted_median(vals, Scaled(Weights(wts), 2)) = wm

----------------------------------------------------------------------------
(* Properties of the composites and the percentiles of a table.             *)

Scored == pc \in {"composites", "roles", "percentiles", "skipped"}
\* every attribute that contributes to composite c is missing in row i
AllMissing(i, c) ==
  \A k \in 1..Len(COMPOSITE_SPECS[c].bases) :
     df[i].stats[COMPOSITE_SPECS[c].bases[k]] = None
\* the table without its row i, and where row j of the table is in it
Dropped(t, i) == SubSeq(t, 1, i - 1) \o SubSeq(t, i + 1, Len(t))
PlaceAfterDrop(j, i) == IF j < i THEN j ELSE j - 1

\* C8: a record whose contributing attributes for a composite are all
\* missing gets a missing score for that composite and missing per-group
\* and global percentiles for it, and it is not counted in the rank
\* denominator of any other record: the percentiles of the other records
\* are those of the table without it.
C8_AllMissingRecord ==
  \A c \in Comps : \A i \in 1..Len(df) :
    AllMissing(i, c) =>
      /\ Scored => df[i].comp[c] = None
      /\ pc = "percentiles" =>
           /\ df[i].pct_pos[c] = None
           /\ df[i].pct_global[c] = None
           /\ \A j \in 1..Len(df) \ {i} :
                /\ df[j].pct_global[c] =
                     rank_pct(Column(Dropped(df, i), c))[PlaceAfterDrop(j, i)]
                /\ df[j].pct_pos[c] =
                     group_rank_pct(Dropped(df, i), c)[PlaceAfterDrop(j, i)]
\* three records of one position, one with no finishing attribute at all:
\* the other two are ranked 1 of 2 and 2 of 2
C8_Witness ==
  /\ pc = "percentiles" /\ Len(df) = 3
  /\ AllMissing(2, 1) /\ df[2].comp[1] = None /\ df[2].pct_global[1] = None
  /\ df[1].position = df[2].position /\ df[2].position = df[3].position
  /\ df[1].pct_global[1] = Some(5000) /\ df[3].pct_global[1] = Some(10000)
  /\ df[1].pct_pos[1] = Some(5000) /\ df[3].pct_pos[1] = Some(10000)

\* the rows with a score for composite c: all of them, or those of the
\* position of row i
Ranked(c) == {j \in 1..Len(df) : df[j].comp[c] # None}
RankedInGroup(c, i) == {j \in Ranked(c) : df[j].position = df[i].position}
\* twice the average rank of row i among the rows S: the ranks less+1 ..
\* less+eq of the tied scores have the mean less + (eq+1)/2
TwiceRank(c, i, S) ==
  2 * Cardinality({j \in S : Get(df[j].comp[c]) < Get(df[i].comp[c])})
  + Cardinality({j \in S : df[j].comp[c] = df[i].comp[c]}) + 1
TopAlone(c, i, S) ==
  \A j \in S \ {i} : Get(df[j].comp[c]) < Get(df[i].comp[c])
\* p hundredths is exactly 100 * rank / count
ExactPercentile(p, c, i, S) ==
  /\ p # None
  /\ Get(p) * 2 * Cardinality(S) = 100 * 100 * TwiceRank(c, i, S)
\* p hundredths is 100 * rank / count to the nearest hundredth
RoundedPercentile(p, c, i, S) ==
  /\ p # None
  /\ Get(p) * 2 * Cardinality(S) - 100 * 100 * TwiceRank(c, i, S) <= Cardinality(S)
  /\ 100 * 100 * TwiceRank(c, i, S) - Get(p) * 2 * Cardinality(S) <= Cardinality(S)
InRange(p, c, i, S) ==
  /\ Get(p) > 0 /\ Get(p) <= 100 * 100
  /\ TopAlone(c, i, S) => Get(p) = 100 * 100
\* the rounding takes the percentile of the lowest of 20000 or more scores
\* to 0
LowestOfMany ==
  /\ Percent(TiedPositions(0, 1), 1, 20000 - 1) = 1
  /\ Percent(TiedPositions(0, 1), 1, 20000) = 0

\* C9 as stated: for each composite and each record with a score, the global
\* percentile equals 100 * (average rank among all non-missing scores) /
\* (number of non-missing scores), the per-group percentile is the same
\* among the records of the same position; each is greater than 0 and at
\* most 100, and an untied maximum gets exactly 100.
C9_ExactPercentile ==
  pc = "percentiles" =>
    \A c \in Comps : \A i \in Ranked(c) :
      /\ ExactPercentile(df[i].pct_global[c], c, i, Ranked(c))
      /\ ExactPercentile(df[i].pct_pos[c], c, i, RankedInGroup(c, i))
      /\ InRange(df[i].pct_global[c], c, i, Ranked(c))
      /\ InRange(df[i].pct_pos[c], c, i, RankedInGroup(c, i))
\* C9 amended: the global and the per-group percentile are that quotient
\* rounded to two decimals; each is at most 100, an untied maximum gets
\* exactly 100, and each is greater than 0 in a table of fewer than 20000
\* scores (the lowest of 20000 or more rounds to 0).
C9_RoundedPercentile ==
  pc = "percentiles" =>
    /\ LowestOfMany
    /\ \A c \in Comps : \A i \in Ranked(c) :
      /\ RoundedPercentile(df[i].pct_global[c], c, i, Ranked(c))
      /\ RoundedPercentile(df[i].pct_pos[c], c, i, RankedInGroup(c, i))
      /\ InRange(df[i].pct_global[c], c, i, Ranked(c))
      /\ InRange(df[i].pct_pos[c], c, i, RankedInGroup(c, i))
\* three finishing scores, the two larger ones tied: 33.33 and 83.33
\* globally, and the tied pair, of one position, 75 each in its group
C9_Witness ==
  /\ pc = "percentiles" /\ Len(df) = 3
  /\ df[1].comp[1] = Some(20) /\ df[2].comp[1] = Some(30) /\ df[3].comp[1] = Some(30)
  /\ df[1].position # df[2].position /\ df[2].position = df[3].position
  /\ df[1].pct_global[1] = Some(3333) /\ df[2].pct_global[1] = Some(8333)
  /\ df[1].pct_pos[1] = Some(100 * 100) /\ df[3].pct_pos[1] = Some(7500)

\* the table with every score multiplied by k
ScaleScores(t, k) ==
  [i \in 1..Len(t) |->
     [t[i] EXCEPT !.comp = [c \in Comps |->
        IF t[i].comp[c] = None THEN None ELSE Some(k * Get(t[i].comp[c]))]]]
SamePercentiles(t) ==
  \A i \in 1..Len(df) :
    t[i].pct_pos = df[i].pct_pos /\ t[i].pct_global = df[i].pct_global
\* C10: multiplying every score of the composite columns by the same
\* positive constant leaves every per-group and every global percentile
\* unchanged.
C10_ScaleOfScores ==
  pc = "percentiles" =>
    \A k \in 2..MaxScale : SamePercentiles(compute_percentiles(ScaleScores(df, k), FALSE))
\* scores 20 and 30 in one position, 10 apart before and 20 or 30 apart
\* after the multiplication, ranked 1 of 2 and 2 of 2
C10_Witness ==
  /\ pc = "percentiles" /\ Len(df) = 2
  /\ df[1].position = df[2].position
  /\ df[1].comp[1] = Some(20) /\ df[2].comp[1] = Some(30)
  /\ df[1].pct_pos[1] = Some(5000) /\ df[2].pct_pos[1] = Some(100 * 100)
  /\ df[1].pct_global[1] = Some(5000) /\ df[2].pct_global[1] = Some(100 * 100)

----------------------------------------------------------------------------
(* Properties of the role classifier.                                       *)

\* the label of each composite, in the declared order
RoleLabels == <<"Finishing", "Shooting", "Playmaking", "Defense", "Athleticism">>
\* main() has run primary_role on the table
Classified == pc \in {"roles", "percentiles", "skipped"}
\* the composites of row i that have a score
Present(i) == {c \in Comps : df[i].comp[c] # None}
\* composite c holds the maximum of the scores of row i
IsTop(i, c) ==
  c \in Present(i) /\ \A d \in Present(i) : Get(df[i].comp[d]) <= Get(df[i].comp[c])

\* C11: primary_role labels each record with the composite whose score is
\* the maximum of the record's non-missing composite scores, and
\* primary_role_score is that maximum; of several composites that tie for
\* the maximum the one declared first is chosen; a record whose composite
\* scores are all missing gets the empty label and a missing score.
C11_PrimaryRole ==
  Classified =>
    \A i \in 1..Len(df) :
      IF Present(i) = {}
      THEN df[i].primary_role = "" /\ df[i].primary_role_score = None
      ELSE \E c \in Comps :
             /\ IsTop(i, c)
             /\ \A d \in Comps : IsTop(i, d) => c <= d
             /\ df[i].primary_role_score = df[i].comp[c]
             /\ df[i].primary_role = RoleLabels[c]
\* a table classified with a record whose five composites tie, a record
\* whose maximum is not the first composite, and a record with no score
C11_Witness ==
  /\ pc = "roles"
  /\ \E i \in 1..Len(df) :
       Cardinality({c \in Comps : IsTop(i, c)}) = Len(COMPOSITE_SPECS)
         /\ df[i].primary_role = "Finishing"
  /\ \E i \in 1..Len(df) :
       Present(i) # {} /\ ~IsTop(i, 1) /\ df[i].primary_role = "Playmaking"
  /\ \E i \in 1..Len(df) : Present(i) = {} /\ df[i].primary_role = ""

----------------------------------------------------------------------------
(* Properties of canonicalization.                                          *)

\* the loop over the raw rows has ended
LoopDone ==
  ppc \in {"csv", "pkl", "exit"} \/ (ppc = "rows" /\ Len(rows) = Len(table.rows))
FieldColumns == {"height", "weight", "close_shot"}
\* the raw text of a column of raw row i
Field(i, column) ==
  CASE column = "height" -> table.rows[i].height
    [] column = "weight" -> table.rows[i].weight
    [] column = "close_shot" -> table.rows[i].close_shot
\* the canonical values made from a column of raw row i
CanonicalValues(i, column) ==
  CASE column = "height" ->
         {rows[i].height_min_in, rows[i].height_max_in, rows[i].height_med_in}
    [] column = "weight" ->
         {rows[i].weight_min_lb, rows[i].weight_max_lb, rows[i].weight_med_lb}
    [] column = "close_shot" -> {rows[i].close_shot_med}
HasDigit(s) == \E k \in 1..Len(s) : IsDigit(s[k])
\* one of the words inf, infinity, nan occurs in s
HasFloatWord(s) ==
  \E w \in InfWords \cup NanWords :
    \E k \in 1..Len(s) : k + Len(w) - 1 <= Len(s) /\ SubSeq(s, k, k + Len(w) - 1) = w
\* a field that is not empty and holds nothing a number could be read from
Unparseable(s) == Strip(s) # <<>> /\ ~HasDigit(s) /\ ~HasFloatWord(s)
\* the field holds something other than separators and blanks
HasToken(s) == Parts(Normalize(s)) # <<>>
\* warnings_accum has an entry for that row and column
Warned(i, column) ==
  \E k \in 1..Len(warnings_accum) :
    warnings_accum[k].row_index = i - 1 /\ warnings_accum[k].column = column
\* row i of the canonical table was made from raw row i
SameRow(i) ==
  /\ table.identity => rows[i].build_name = Strip(table.rows[i].build_name)
  /\ \A column \in FieldColumns :
       (Strip(Field(i, column)) = <<>>) => CanonicalValues(i, column) = {None}

\* C12: canonicalization produces exactly one canonical row per raw row,
\* in input order; a non-empty field that contains no parseable number
\* does not abort the row, its canonical value is None, and a warning
\* naming that row and column is in the warning list.
C12_Canonicalization ==
  /\ Len(rows) <= Len(table.rows)
  /\ LoopDone => Len(rows) = Len(table.rows)
  /\ \A i \in 1..Len(rows) :
       /\ SameRow(i)
       /\ \A column \in FieldColumns :
            Unparseable(Field(i, column)) =>
              CanonicalValues(i, column) = {None} /\ Warned(i, column)
\* the same with the warning asked only of a field that holds a token
C12_TokenFields ==
  /\ Len(rows) <= Len(table.rows)
  /\ LoopDone => Len(rows) = Len(table.rows)
  /\ \A i \in 1..Len(rows) :
       /\ SameRow(i)
       /\ \A column \in FieldColumns :
            Unparseable(Field(i, column)) =>
              /\ CanonicalValues(i, column) = {None}
              /\ HasToken(Field(i, column)) => Warned(i, column)

----------------------------------------------------------------------------
(* Properties of the output artifacts of a run.                             *)

\* an earlier run left an artifact and this run was not told to overwrite
PriorOutputs == (\E a \in DOMAIN prior : prior[a] = "old") /\ ~force
\* the exit code says the run failed
Failed == rc # None /\ Get(rc) # 0
\* an artifact this run wrote, in whole or in part
Touched(a) == disk[a] \in {"new", "partial"}

\* C13: if any output artifact already exists and no overwrite was
\* requested, every existing file is left unchanged, no new file is created
\* and the run ends with an error; for compute_features the exit code of a
\* run that got as far as saving is 5.
C13_NeverClobbers ==
  PriorOutputs =>
    /\ disk = prior
    /\ rc # None => Failed
    /\ (pc = "exit" /\ input = "table") => rc = Some(5)
\* compute_features refuses to save over the outputs of an earlier run
C13_SaveRefused ==
  (PriorOutputs /\ pc = "exit" /\ input = "table") => rc = Some(5) /\ disk = prior

\* C14: in every terminal state either the run succeeded and all of its
\* artifacts are present and were written by this run, or the run failed
\* and none of its artifacts was written.
C14_AllOrNothing ==
  rc # None =>
    IF Get(rc) = 0 THEN \A a \in DOMAIN disk : disk[a] = "new"
    ELSE \A a \in DOMAIN disk : ~Touched(a)
\* a run that succeeds has written all of its artifacts, and a run that
\* fails before its first write has written none
C14_Complete ==
  rc # None =>
    /\ Get(rc) = 0 => \A a \in DOMAIN disk : disk[a] = "new"
    /\ Get(rc) \in 2..5 => disk = prior

\* the input has no table, or a table without the identity columns
StructuralFailure ==
  \/ csvs \in {"none", "unreadable"}
  \/ csvs = "readable" /\ ~table.identity
  \/ input \in {"missing", "no_identity"}
\* C15: when no input table is found, or the identity columns are absent,
\* the run returns a non-zero exit code and writes no table.
C15_StructuralFailureFatal ==
  StructuralFailure =>
    /\ \A a \in DOMAIN disk : ~Touched(a)
    /\ rc # None => Failed
\* the same for the runs that find no input table, and for a table without
\* identity columns handed to compute_features
C15_NoInputTable ==
  (csvs \in {"none", "unreadable"} \/ input \in {"missing", "no_identity"}) =>
    /\ \A a \in DOMAIN disk : ~Touched(a)
    /\ rc # None => Failed

----------------------------------------------------------------------------
(* Properties of the values of the canonical table.                         *)

\* v is None or a finite number
NoneOrFinite(v) == v = None \/ IsFinite(Get(v))

\* C16: parse_number_token returns no value for a token that contains no
\* decimal digit, words such as inf, infinity and nan included, and every
\* numeric field of every canonical record is None or a finite number.
C16_NoValueInvented ==
  \A i \in 1..Len(rows) : \A column \in FieldColumns :
    /\ ~HasDigit(Field(i, column)) =>
         /\ parse_number_token(Field(i, column)) = None
         /\ CanonicalValues(i, column) = {None}
    /\ \A v \in CanonicalValues(i, column) : NoneOrFinite(v)
\* the same for the fields that hold none of the words inf, infinity, nan
C16_OtherWords ==
  \A i \in 1..Len(rows) : \A column \in FieldColumns :
    ~HasFloatWord(Field(i, column)) =>
      /\ ~HasDigit(Field(i, column)) =>
           /\ parse_number_token(Field(i, column)) = None
           /\ CanonicalValues(i, column) = {None}
      /\ \A v \in CanonicalValues(i, column) : NoneOrFinite(v)

----------------------------------------------------------------------------
(* Properties of the Range Parser on fields of three or more parts.         *)

\* the non-empty parts of the field between its separators
RawParts == Parts(Normalize(Strip(raw)))
\* the field made of the first two parts only
FirstTwo == RawParts[1] \o <<"-">> \o RawParts[2]
\* what the parser that ran returns for a field
Parsed(s) ==
  CASE fn = "height" -> parse_height(s)
    [] fn = "weight" -> parse_weight(s)
    [] fn = "stat" -> parse_stat(s)
\* a parser ran on a field of three or more parts
ThreeParts == fn \in {"height", "weight", "stat"} /\ Len(RawParts) >= 3
SameValues(p, q) == p.mn = q.mn /\ p.mx = q.mx /\ p.med = q.med

\* C17: for a field of three or more parts the result is determined by
\* parts 1 and 2 alone: it is the result for the field made of those two
\* parts, so with exactly one of them numeric it is the single-point
\* interval of that value, and a third part never becomes min or max.
C17_FirstTwoParts ==
  ThreeParts =>
    /\ SameValues(out, Parsed(FirstTwo))
    /\ (HasDigit(RawParts[1]) # HasDigit(RawParts[2])) =>
         out.mn # None /\ out.mn = out.mx /\ out.med = out.mn
\* the same for a field whose first two parts are both numeric
C17_BothNumeric ==
  (ThreeParts /\ HasDigit(RawParts[1]) /\ HasDigit(RawParts[2])) =>
    SameValues(out, Parsed(FirstTwo))

----------------------------------------------------------------------------
(* Properties of the fallback of weighted_median.                           *)

\* the entries whose value is present
PresentEntries == {i \in 1..Len(vals) : vals[i] # None}
\* a value is present and no present value has a positive weight
Degenerate ==
  mpc = "returned" /\ PresentEntries # {} /\ \A i \in PresentEntries : wts[i] <= 0
\* the k-th smallest of the present values
Kth(k) ==
  CHOOSE v \in {Get(vals[i]) : i \in PresentEntries} :
    /\ Cardinality({i \in PresentEntries : Get(vals[i]) < v}) < k
    /\ k <= Cardinality({i \in PresentEntries : Get(vals[i]) <= v})
\* the middle value, or the mean of the two middle values
UnweightedMedian ==
  LET n == Cardinality(PresentEntries)
  IN IF n % 2 = 1 THEN Kth((n + 1) \div 2)
     ELSE (Kth(n \div 2) + Kth(n \div 2 + 1)) \div 2

\* C18: when at least one value is present and every present value has a
\* weight that is not positive, the score is the unweighted median of the
\* present values, the mean of the two middle values when their count is
\* even, and not a missing score.
C18_UnweightedFallback == Degenerate => wm = Some(UnweightedMedian)
\* two different values are present under weights of which none is
\* positive, while the missing value carries a positive weight
C18_Witness ==
  /\ Degenerate
  /\ Cardinality(PresentEntries) = 2 /\ Kth(1) # Kth(2)
  /\ \E i \in 1..Len(wts) : wts[i] > 0
  /\ \E i \in PresentEntries : wts[i] < 0
  /\ wm = Some((Kth(1) + Kth(2)) \div 2)

====
